---- MODULE Spec2Model ----
(***************************************************************************)
(* A model of jaco, a Japanese-text normalisation toolkit: the chainable   *)
(* wrapper Jaco (src/src/jaco.ts) and the free function indexOf            *)
(* (src/fn/indexOf.js).  A string is a sequence of 16-bit code units, each *)
(* a number in 0..65535.                                                   *)
(***************************************************************************)
EXTENDS Integers, Sequences, FiniteSets, TLC

VARIABLES
  buf,      \* this.$ : the wrapper's buffer
  pre,      \* the buffer as it was before the last operation
  op,       \* the operation just called; "ready" when the wrapper awaits a call
  argStr,   \* the string argument of the last operation
  argNum,   \* its first numeric argument
  argNum2,  \* its second numeric argument
  argFlag,  \* its first boolean argument
  argFlag2, \* its second boolean argument
  argKind,  \* the kind of a numeric argument: "finite", "inf", "ninf", "nan", "none"
  retNum,   \* the number the operation returned
  retStr,   \* the string (or the buffer of the new wrapper) it returned
  retArr,   \* the array of characters it returned
  retFlag,  \* the boolean it returned
  err,      \* the error it threw, "none" when it returned
  pc,       \* where a call that runs step by step stands; "none" when none runs
  converted \* the local variable converted of convertProlongedSoundMarks

vars == <<buf, pre, op, argStr, argNum, argNum2, argFlag, argFlag2, argKind,
          retNum, retStr, retArr, retFlag, err, pc, converted>>

----------------------------------------------------------------------------
(* Bounds of the model.                                                    *)

MaxLen == 3
MaxDigraphs == 2

----------------------------------------------------------------------------
(* Strings and the platform's string primitives.                           *)

Min(a, b) == IF a < b THEN a ELSE b
Max(a, b) == IF a > b THEN a ELSE b

RECURSIVE StringsUpTo(_, _)
StringsUpTo(alphabet, n) ==
  IF n = 0 THEN {<<>>}
  ELSE LET shorter == StringsUpTo(alphabet, n - 1)
       IN  shorter \cup {Append(s, c) : s \in {t \in shorter : Len(t) = n - 1}, c \in alphabet}

MatchAt(s, i, needle) ==
  /\ i + Len(needle) - 1 <= Len(s)
  /\ SubSeq(s, i, i + Len(needle) - 1) = needle

\* the code-unit positions (from 1) where needle occurs in s
Occurrences(s, needle) == {i \in 1..Len(s) : MatchAt(s, i, needle)}

\* String.prototype.replace(new RegExp(needle, 'g'), replace) for a needle
\* without pattern metacharacters: every match, left to right, no overlap.
RECURSIVE ReplaceFrom(_, _, _, _)
ReplaceFrom(s, needle, replace, i) ==
  IF i > Len(s) THEN <<>>
  ELSE IF MatchAt(s, i, needle)
       THEN replace \o ReplaceFrom(s, needle, replace, i + Len(needle))
       ELSE <<s[i]>> \o ReplaceFrom(s, needle, replace, i + 1)

replaceGlobal(s, needle, replace) == ReplaceFrom(s, needle, replace, 1)

\* The keys lo..hi of the map in insertion order, each replaced globally in
\* the then-current buffer.  (The test on Len(left) makes TLC compute the
\* first half before it starts on the second.)
RECURSIVE ReplaceKeys(_, _, _, _)
ReplaceKeys(s, convMap, lo, hi) ==
  IF lo > hi THEN s
  ELSE IF lo = hi THEN replaceGlobal(s, convMap[lo][1], convMap[lo][2])
  ELSE LET mid  == (lo + hi) \div 2
           left == ReplaceKeys(s, convMap, lo, mid)
       IN  IF Len(left) >= 0 THEN ReplaceKeys(left, convMap, mid + 1, hi) ELSE left

Reverse(q) == [i \in 1..Len(q) |-> q[Len(q) + 1 - i]]

\* The keys of the map applied last to first, so that the single narrow
\* characters are replaced before the digraphs.
replaceFromMapReversed(s, convMap) == ReplaceKeys(s, Reverse(convMap), 1, Len(convMap))

\* Jaco.replaceFromMap: for (const needle in convMap) this.$ = this.$.replace(...)
replaceFromMap(s, convMap) == ReplaceKeys(s, convMap, 1, Len(convMap))

\* Jaco._shift: every character of the class moved by shiftNum code points
\* (String.fromCharCode keeps 16 bits).
_shift(s, class, shiftNum) ==
  [i \in 1..Len(s) |-> IF s[i] \in class THEN (s[i] + shiftNum) % 65536 ELSE s[i]]

----------------------------------------------------------------------------
(* Character classes (src/const).                                          *)

\* toPattern(chars): the global pattern "any one character of this set"
toPattern(chars) == chars

\* SPACE_CHARS: the ASCII space, U+3000 and the other space separators
SPACE_CHARS == {32, 160, 5760, 8239, 8287, 12288} \cup (8192..8202)
\* ALPHANUMERIC_CHARS_WITH_SIGN: the printable ASCII range U+0020..U+007E
ALPHANUMERIC_CHARS_WITH_SIGN == 32..126
\* FULLWIDTH_ALPHANUMERIC_CHARS_WITH_SIGN: U+FF01..U+FF5E
FULLWIDTH_ALPHANUMERIC_CHARS_WITH_SIGN == 65281..65374
\* KATAKANA_CHARS: U+30A1..U+30FA, U+30FD..U+30FF
KATAKANA_CHARS == (12449..12538) \cup (12541..12543)
\* HIRAGANA_CHARS: U+3041..U+3096, the marks U+3099..U+309C and the
\* iteration marks U+309D, U+309E
HIRAGANA_CHARS == (12353..12438) \cup (12441..12446)

----------------------------------------------------------------------------
(* The conversion tables, key and replacement in the order of the source.  *)

WideKatakanaMap ==
  <<
    <<<<65398, 65438>>, <<12460>>>>, <<<<65399, 65438>>, <<12462>>>>, <<<<65400, 65438>>, <<12464>>>>, <<<<65401, 65438>>, <<12466>>>>,
    <<<<65402, 65438>>, <<12468>>>>, <<<<65403, 65438>>, <<12470>>>>, <<<<65404, 65438>>, <<12472>>>>, <<<<65405, 65438>>, <<12474>>>>,
    <<<<65406, 65438>>, <<12476>>>>, <<<<65407, 65438>>, <<12478>>>>, <<<<65408, 65438>>, <<12480>>>>, <<<<65409, 65438>>, <<12482>>>>,
    <<<<65410, 65438>>, <<12485>>>>, <<<<65411, 65438>>, <<12487>>>>, <<<<65412, 65438>>, <<12489>>>>, <<<<65418, 65438>>, <<12496>>>>,
    <<<<65419, 65438>>, <<12499>>>>, <<<<65420, 65438>>, <<12502>>>>, <<<<65421, 65438>>, <<12505>>>>, <<<<65422, 65438>>, <<12508>>>>,
    <<<<65418, 65439>>, <<12497>>>>, <<<<65419, 65439>>, <<12500>>>>, <<<<65420, 65439>>, <<12503>>>>, <<<<65421, 65439>>, <<12506>>>>,
    <<<<65422, 65439>>, <<12509>>>>, <<<<65436, 65438>>, <<12535>>>>, <<<<65394, 65438>>, <<12536>>>>, <<<<65395, 65438>>, <<12532>>>>,
    <<<<65396, 65438>>, <<12537>>>>, <<<<65382, 65438>>, <<12538>>>>, <<<<65438>>, <<12443>>>>, <<<<65439>>, <<12444>>>>,
    <<<<65383>>, <<12449>>>>, <<<<65384>>, <<12451>>>>, <<<<65385>>, <<12453>>>>, <<<<65386>>, <<12455>>>>,
    <<<<65387>>, <<12457>>>>, <<<<65388>>, <<12515>>>>, <<<<65389>>, <<12517>>>>, <<<<65390>>, <<12519>>>>,
    <<<<65391>>, <<12483>>>>, <<<<65392>>, <<12540>>>>, <<<<65393>>, <<12450>>>>, <<<<65394>>, <<12452>>>>,
    <<<<65395>>, <<12454>>>>, <<<<65396>>, <<12456>>>>, <<<<65397>>, <<12458>>>>, <<<<65398>>, <<12459>>>>,
    <<<<65399>>, <<12461>>>>, <<<<65400>>, <<12463>>>>, <<<<65401>>, <<12465>>>>, <<<<65402>>, <<12467>>>>,
    <<<<65403>>, <<12469>>>>, <<<<65404>>, <<12471>>>>, <<<<65405>>, <<12473>>>>, <<<<65406>>, <<12475>>>>,
    <<<<65407>>, <<12477>>>>, <<<<65408>>, <<12479>>>>, <<<<65409>>, <<12481>>>>, <<<<65410>>, <<12484>>>>,
    <<<<65411>>, <<12486>>>>, <<<<65412>>, <<12488>>>>, <<<<65413>>, <<12490>>>>, <<<<65414>>, <<12491>>>>,
    <<<<65415>>, <<12492>>>>, <<<<65416>>, <<12493>>>>, <<<<65417>>, <<12494>>>>, <<<<65418>>, <<12495>>>>,
    <<<<65419>>, <<12498>>>>, <<<<65420>>, <<12501>>>>, <<<<65421>>, <<12504>>>>, <<<<65422>>, <<12507>>>>,
    <<<<65423>>, <<12510>>>>, <<<<65424>>, <<12511>>>>, <<<<65425>>, <<12512>>>>, <<<<65426>>, <<12513>>>>,
    <<<<65427>>, <<12514>>>>, <<<<65428>>, <<12516>>>>, <<<<65429>>, <<12518>>>>, <<<<65430>>, <<12520>>>>,
    <<<<65431>>, <<12521>>>>, <<<<65432>>, <<12522>>>>, <<<<65433>>, <<12523>>>>, <<<<65434>>, <<12524>>>>,
    <<<<65435>>, <<12525>>>>, <<<<65436>>, <<12527>>>>, <<<<65382>>, <<12530>>>>, <<<<65437>>, <<12531>>>>
  >>

CombiningMarkMap ==
  <<
    <<<<12443>>, <<12441>>>>, <<<<12444>>, <<12442>>>>
  >>

CombineMap ==
  <<
    <<<<12363, 12441>>, <<12364>>>>, <<<<12365, 12441>>, <<12366>>>>, <<<<12367, 12441>>, <<12368>>>>, <<<<12369, 12441>>, <<12370>>>>,
    <<<<12371, 12441>>, <<12372>>>>, <<<<12373, 12441>>, <<12374>>>>, <<<<12375, 12441>>, <<12376>>>>, <<<<12377, 12441>>, <<12378>>>>,
    <<<<12379, 12441>>, <<12380>>>>, <<<<12381, 12441>>, <<12382>>>>, <<<<12383, 12441>>, <<12384>>>>, <<<<12385, 12441>>, <<12386>>>>,
    <<<<12388, 12441>>, <<12389>>>>, <<<<12390, 12441>>, <<12391>>>>, <<<<12392, 12441>>, <<12393>>>>, <<<<12399, 12441>>, <<12400>>>>,
    <<<<12402, 12441>>, <<12403>>>>, <<<<12405, 12441>>, <<12406>>>>, <<<<12408, 12441>>, <<12409>>>>, <<<<12411, 12441>>, <<12412>>>>,
    <<<<12459, 12441>>, <<12460>>>>, <<<<12461, 12441>>, <<12462>>>>, <<<<12463, 12441>>, <<12464>>>>, <<<<12465, 12441>>, <<12466>>>>,
    <<<<12467, 12441>>, <<12468>>>>, <<<<12469, 12441>>, <<12470>>>>, <<<<12471, 12441>>, <<12472>>>>, <<<<12473, 12441>>, <<12474>>>>,
    <<<<12475, 12441>>, <<12476>>>>, <<<<12477, 12441>>, <<12478>>>>, <<<<12479, 12441>>, <<12480>>>>, <<<<12481, 12441>>, <<12482>>>>,
    <<<<12484, 12441>>, <<12485>>>>, <<<<12486, 12441>>, <<12487>>>>, <<<<12488, 12441>>, <<12489>>>>, <<<<12495, 12441>>, <<12496>>>>,
    <<<<12498, 12441>>, <<12499>>>>, <<<<12501, 12441>>, <<12502>>>>, <<<<12504, 12441>>, <<12505>>>>, <<<<12507, 12441>>, <<12508>>>>,
    <<<<12527, 12441>>, <<12535>>>>, <<<<12452, 12441>>, <<12536>>>>, <<<<12454, 12441>>, <<12532>>>>, <<<<12456, 12441>>, <<12537>>>>,
    <<<<12538, 12441>>, <<12530>>>>, <<<<12445, 12441>>, <<12446>>>>, <<<<12541, 12441>>, <<12542>>>>, <<<<12399, 12442>>, <<12401>>>>,
    <<<<12402, 12442>>, <<12404>>>>, <<<<12405, 12442>>, <<12407>>>>, <<<<12408, 12442>>, <<12410>>>>, <<<<12411, 12442>>, <<12413>>>>,
    <<<<12495, 12442>>, <<12497>>>>, <<<<12498, 12442>>, <<12500>>>>, <<<<12501, 12442>>, <<12503>>>>, <<<<12504, 12442>>, <<12506>>>>,
    <<<<12507, 12442>>, <<12509>>>>
  >>

ArchaicKatakanaMap ==
  <<
    <<<<12535>>, <<12431, 12443>>>>, <<<<12536>>, <<12432, 12443>>>>, <<<<12537>>, <<12433, 12443>>>>, <<<<12538>>, <<12434, 12443>>>>
  >>

NarrowKatakanaMap ==
  <<
    <<<<12449>>, <<65383>>>>, <<<<12451>>, <<65384>>>>, <<<<12453>>, <<65385>>>>, <<<<12455>>, <<65386>>>>,
    <<<<12457>>, <<65387>>>>, <<<<12515>>, <<65388>>>>, <<<<12517>>, <<65389>>>>, <<<<12519>>, <<65390>>>>,
    <<<<12483>>, <<65391>>>>, <<<<12533>>, <<65398>>>>, <<<<12534>>, <<65401>>>>, <<<<12526>>, <<65436>>>>,
    <<<<12540>>, <<65392>>>>, <<<<12450>>, <<65393>>>>, <<<<12452>>, <<65394>>>>, <<<<12454>>, <<65395>>>>,
    <<<<12456>>, <<65396>>>>, <<<<12458>>, <<65397>>>>, <<<<12459>>, <<65398>>>>, <<<<12461>>, <<65399>>>>,
    <<<<12463>>, <<65400>>>>, <<<<12465>>, <<65401>>>>, <<<<12467>>, <<65402>>>>, <<<<12469>>, <<65403>>>>,
    <<<<12471>>, <<65404>>>>, <<<<12473>>, <<65405>>>>, <<<<12475>>, <<65406>>>>, <<<<12477>>, <<65407>>>>,
    <<<<12479>>, <<65408>>>>, <<<<12481>>, <<65409>>>>, <<<<12484>>, <<65410>>>>, <<<<12486>>, <<65411>>>>,
    <<<<12488>>, <<65412>>>>, <<<<12490>>, <<65413>>>>, <<<<12491>>, <<65414>>>>, <<<<12492>>, <<65415>>>>,
    <<<<12493>>, <<65416>>>>, <<<<12494>>, <<65417>>>>, <<<<12495>>, <<65418>>>>, <<<<12498>>, <<65419>>>>,
    <<<<12501>>, <<65420>>>>, <<<<12504>>, <<65421>>>>, <<<<12507>>, <<65422>>>>, <<<<12510>>, <<65423>>>>,
    <<<<12511>>, <<65424>>>>, <<<<12512>>, <<65425>>>>, <<<<12513>>, <<65426>>>>, <<<<12514>>, <<65427>>>>,
    <<<<12516>>, <<65428>>>>, <<<<12518>>, <<65429>>>>, <<<<12520>>, <<65430>>>>, <<<<12521>>, <<65431>>>>,
    <<<<12522>>, <<65432>>>>, <<<<12523>>, <<65433>>>>, <<<<12524>>, <<65434>>>>, <<<<12525>>, <<65435>>>>,
    <<<<12527>>, <<65436>>>>, <<<<12531>>, <<65437>>>>, <<<<12528>>, <<65394>>>>, <<<<12529>>, <<65396>>>>,
    <<<<12530>>, <<65382>>>>, <<<<12460>>, <<65398, 65438>>>>, <<<<12462>>, <<65399, 65438>>>>, <<<<12464>>, <<65400, 65438>>>>,
    <<<<12466>>, <<65401, 65438>>>>, <<<<12468>>, <<65402, 65438>>>>, <<<<12470>>, <<65403, 65438>>>>, <<<<12472>>, <<65404, 65438>>>>,
    <<<<12474>>, <<65405, 65438>>>>, <<<<12476>>, <<65406, 65438>>>>, <<<<12478>>, <<65407, 65438>>>>, <<<<12480>>, <<65408, 65438>>>>,
    <<<<12482>>, <<65409, 65438>>>>, <<<<12485>>, <<65410, 65438>>>>, <<<<12487>>, <<65411, 65438>>>>, <<<<12489>>, <<65412, 65438>>>>,
    <<<<12496>>, <<65418, 65438>>>>, <<<<12499>>, <<65419, 65438>>>>, <<<<12502>>, <<65420, 65438>>>>, <<<<12505>>, <<65421, 65438>>>>,
    <<<<12508>>, <<65422, 65438>>>>, <<<<12497>>, <<65418, 65439>>>>, <<<<12500>>, <<65419, 65439>>>>, <<<<12503>>, <<65420, 65439>>>>,
    <<<<12506>>, <<65421, 65439>>>>, <<<<12509>>, <<65422, 65439>>>>, <<<<12535>>, <<65436, 65438>>>>, <<<<12536>>, <<65394, 65438>>>>,
    <<<<12532>>, <<65395, 65438>>>>, <<<<12537>>, <<65396, 65438>>>>, <<<<12538>>, <<65382, 65438>>>>
  >>

NarrowSymbolMap ==
  <<
    <<<<12290>>, <<65377>>>>, <<<<12300>>, <<65378>>>>, <<<<12301>>, <<65379>>>>, <<<<12289>>, <<65380>>>>,
    <<<<12539>>, <<65381>>>>
  >>

WideSymbolMap ==
  <<
    <<<<65377>>, <<12290>>>>, <<<<65378>>, <<12300>>>>, <<<<65379>>, <<12301>>>>, <<<<65380>>, <<12289>>>>,
    <<<<65381>>, <<12539>>>>
  >>

----------------------------------------------------------------------------
(* Kana conversions.                                                       *)

\* The single narrow characters widened before the digraphs.
toWideKatakanaSinglesFirst(s) == replaceFromMapReversed(s, WideKatakanaMap)

toWideKatakana(s) == replaceFromMap(s, WideKatakanaMap)

\* combinateSoundMarks(true) stops after the marks are made combining;
\* combinateSoundMarks(false) goes on to compose base + mark.
combinateSoundMarks(s, isConvertCombiningSoundMarks) ==
  LET combining == replaceFromMap(s, CombiningMarkMap)
  IN  IF isConvertCombiningSoundMarks THEN combining
      ELSE replaceFromMap(combining, CombineMap)

\* The marks combined whatever isCombinate says.
toHiraganaAlwaysCombinate(s, isCombinate) ==
  LET wide    == toWideKatakana(s)
      archaic == replaceFromMap(wide, ArchaicKatakanaMap)
      shifted == _shift(archaic, toPattern(KATAKANA_CHARS), -96)
  IN  combinateSoundMarks(shifted, FALSE)

toHiragana(s, isCombinate) ==
  LET wide    == toWideKatakana(s)
      archaic == replaceFromMap(wide, ArchaicKatakanaMap)
      shifted == _shift(archaic, toPattern(KATAKANA_CHARS), -96)
  IN  IF isCombinate THEN combinateSoundMarks(shifted, FALSE) ELSE shifted

\* this.replace(/base(?:\u309B|\u3099|\uFF9E)/g, replace): a base followed by
\* any of the three voicing marks becomes one katakana.
RECURSIVE ReplaceVoicedFrom(_, _, _, _)
ReplaceVoicedFrom(s, base, replace, i) ==
  IF i > Len(s) THEN <<>>
  ELSE IF s[i] = base /\ i < Len(s) /\ s[i + 1] \in {12443, 12441, 65438}
       THEN <<replace>> \o ReplaceVoicedFrom(s, base, replace, i + 2)
       ELSE <<s[i]>> \o ReplaceVoicedFrom(s, base, replace, i + 1)

toKatakana(s, widen) ==
  LET wide == IF widen THEN toWideKatakana(s) ELSE s
      wa   == ReplaceVoicedFrom(wide, 12431, 12535, 1)
      wi   == ReplaceVoicedFrom(wa, 12432, 12536, 1)
      we   == ReplaceVoicedFrom(wi, 12433, 12537, 1)
      wo   == ReplaceVoicedFrom(we, 12434, 12538, 1)
  IN  _shift(wo, toPattern(HIRAGANA_CHARS), 96)

\* this.replace(/a|b/g, replace) for a set of single characters
ReplaceChars(s, chars, replace) ==
  [i \in 1..Len(s) |-> IF s[i] \in chars THEN replace ELSE s[i]]

toNarrowKatakana(s, fromHiragana) ==
  LET kata   == IF fromHiragana THEN toKatakana(s, TRUE) ELSE s
      voiced == ReplaceChars(kata, {12443, 12441}, 65438)
      semi   == ReplaceChars(voiced, {12444, 12442}, 65439)
  IN  replaceFromMap(semi, NarrowKatakanaMap)

toNarrowJapneseSymbol(s) == replaceFromMap(s, NarrowSymbolMap)

toWideJapneseSymbol(s) == replaceFromMap(s, WideSymbolMap)

toNarrowJapnese(s) == toNarrowJapneseSymbol(toNarrowKatakana(s, FALSE))

toWideJapnese(s) == toWideJapneseSymbol(toWideKatakana(s))

----------------------------------------------------------------------------
(* Width conversion and numeric clean-up.                                  *)

\* String.prototype.replace(needle, replace), the needle a string: the first
\* occurrence only
ReplaceFirst(s, needle, replace) ==
  LET occ == Occurrences(s, needle)
  IN  IF occ = {} THEN s
      ELSE LET i == CHOOSE k \in occ : \A j \in occ : k <= j
           IN  SubSeq(s, 1, i - 1) \o replace \o SubSeq(s, i + Len(needle), Len(s))

\* this.remove(/[...]/g) for a set of single characters
RemoveChars(s, chars) == SelectSeq(s, LAMBDA c : c \notin chars)

toNarrow(s, convertJapaneseChars) ==
  LET spaces  == ReplaceChars(s, toPattern(SPACE_CHARS), 32)
      shifted == _shift(spaces, toPattern(FULLWIDTH_ALPHANUMERIC_CHARS_WITH_SIGN), -65248)
  IN  IF convertJapaneseChars THEN toNarrowJapnese(shifted) ELSE shifted

toWide(s) ==
  LET spaces   == ReplaceFirst(s, <<32>>, <<12288>>)
      japanese == toWideJapnese(spaces)
  IN  _shift(japanese, toPattern(ALPHANUMERIC_CHARS_WITH_SIGN), 65248)

Digits == 48..57

\* this.replace(/\.([0-9])/, '_$1'): the first dot that a digit follows
MarkFirstDot(s) ==
  LET occ == {i \in 1..(Len(s) - 1) : s[i] = 46 /\ s[i + 1] \in Digits}
  IN  IF occ = {} THEN s
      ELSE LET i == CHOOSE k \in occ : \A j \in occ : k <= j
           IN  [s EXCEPT ![i] = 95]

toNumeric(s, negative, floatingPoint) ==
  LET narrow   == toNarrow(s, FALSE)
      kept     == SelectSeq(narrow, LAMBDA c : c \in Digits \cup {46, 45})
      marked   == IF negative /\ kept # <<>> /\ kept[1] = 45
                  THEN <<110>> \o Tail(kept) ELSE kept
      noHyphen == RemoveChars(marked, {45})
      hyphen   == IF negative THEN ReplaceFirst(noHyphen, <<110>>, <<45>>) ELSE noHyphen
      dotted   == IF floatingPoint THEN MarkFirstDot(hyphen) ELSE hyphen
      noDot    == RemoveChars(dotted, {46})
  IN  IF floatingPoint THEN ReplaceFirst(noDot, <<95>>, <<46>>) ELSE noDot

\* the body of the loop of repeat, times whole and not negative
RECURSIVE RepeatLoop(_, _)
RepeatLoop(s, times) == IF times = 0 THEN <<>> ELSE s \o RepeatLoop(s, times - 1)

\* A repeat count is its kind ("finite", "inf", "ninf", "nan") and, when
\* finite, twice its value, so that halves are counts too.
\* Math.floor(Math.max(times, 0)) === Infinity
repeatThrows(kind) == kind = "inf"

\* The count rounded up instead of down.
repeatTimesCeiling(kind, halves) ==
  IF kind = "finite" THEN (Max(halves, 0) + 1) \div 2 ELSE 0

\* how often the loop while (times--) runs: NaN is falsy, it never does
repeatTimes(kind, halves) ==
  IF kind = "finite" THEN Max(halves, 0) \div 2 ELSE 0

\* Jaco.repeat: the buffer it leaves
repeat(s, kind, halves) ==
  IF repeatThrows(kind) THEN s ELSE RepeatLoop(s, repeatTimes(kind, halves))

----------------------------------------------------------------------------
(* The kana conversions as operations of a wrapper.                        *)

\* narrow ka, narrow voicing mark, wide ka, wide va (U+30F7), hiragana ka,
\* spacing voicing mark
KanaAlphabet == {65398, 65438, 12459, 12535, 12363, 12443}

Range(f) == {f[i] : i \in DOMAIN f}

\* the two-character keys of the narrow-to-wide table
NarrowDigraphs == {e[1] : e \in {x \in Range(WideKatakanaMap) : Len(x[1]) = 2}}

\* ga, ba, pa, va (U+30F7), vu, vo (U+30FA) as narrow digraphs
DigraphSample ==
  {<<65398, 65438>>, <<65418, 65438>>, <<65418, 65439>>,
   <<65436, 65438>>, <<65395, 65438>>, <<65382, 65438>>}

RECURSIVE DigraphStringsUpTo(_)
DigraphStringsUpTo(n) ==
  IF n = 0 THEN {<<>>}
  ELSE LET shorter == DigraphStringsUpTo(n - 1)
       IN  shorter \cup {s \o d : s \in {t \in shorter : Len(t) = 2 * (n - 1)},
                                  d \in DigraphSample}

\* the fixture of src/test/test.js:6, eight narrow ga
EightNarrowGa == [i \in 1..16 |-> IF i % 2 = 1 THEN 65398 ELSE 65438]

KanaInputs ==
  StringsUpTo(KanaAlphabet, MaxLen) \cup NarrowDigraphs
    \cup DigraphStringsUpTo(MaxDigraphs) \cup {EightNarrowGa}

NoArgs ==
  /\ argStr' = <<>> /\ argNum' = 0 /\ argNum2' = 0
  /\ argFlag' = FALSE /\ argFlag2' = FALSE /\ argKind' = "none"

NoRet ==
  /\ retNum' = 0 /\ retStr' = <<>> /\ retArr' = <<>> /\ retFlag' = FALSE
  /\ err' = "none"

\* no call is running step by step
NoLocals == pc' = "none" /\ converted' = <<>>

Fresh(inputs) ==
  /\ buf \in inputs /\ pre = buf /\ op = "ready"
  /\ argStr = <<>> /\ argNum = 0 /\ argNum2 = 0
  /\ argFlag = FALSE /\ argFlag2 = FALSE /\ argKind = "none"
  /\ retNum = 0 /\ retStr = <<>> /\ retArr = <<>> /\ retFlag = FALSE
  /\ err = "none" /\ pc = "none" /\ converted = <<>>

\* The operation returned (this, or a value): the wrapper awaits the next call
\* of the chain.
Chain ==
  /\ op # "ready" /\ pc = "none"
  /\ op' = "ready" /\ pre' = buf /\ buf' = buf
  /\ NoArgs /\ NoRet /\ NoLocals

\* a mutating, chainable operation without arguments
Mutate(name, result) ==
  /\ op = "ready"
  /\ pre' = buf /\ buf' = result /\ op' = name
  /\ NoArgs /\ NoRet /\ NoLocals

\* a mutating, chainable operation with one boolean argument
MutateFlag(name, flag, result) ==
  /\ op = "ready"
  /\ pre' = buf /\ buf' = result /\ op' = name
  /\ argFlag' = flag
  /\ argStr' = <<>> /\ argNum' = 0 /\ argNum2' = 0 /\ argFlag2' = FALSE /\ argKind' = "none"
  /\ NoRet /\ NoLocals

ToWideKatakana == Mutate("toWideKatakana", toWideKatakana(buf))

CombinateSoundMarks ==
  \E isConvertCombiningSoundMarks \in BOOLEAN :
    MutateFlag("combinateSoundMarks", isConvertCombiningSoundMarks,
               combinateSoundMarks(buf, isConvertCombiningSoundMarks))

ToHiragana ==
  \E isCombinate \in BOOLEAN :
    MutateFlag("toHiragana", isCombinate, toHiragana(buf, isCombinate))

ToKatakana ==
  \E widen \in BOOLEAN :
    MutateFlag("toKatakana", widen, toKatakana(buf, widen))

InitKana == Fresh(KanaInputs)

NextKana == ToWideKatakana \/ CombinateSoundMarks \/ ToHiragana \/ ToKatakana \/ Chain

SpecKana == InitKana /\ [][NextKana]_vars

----------------------------------------------------------------------------
(* Claims about the kana conversions.                                      *)

IsDigraphString(s) ==
  /\ Len(s) > 0 /\ Len(s) % 2 = 0
  /\ \A i \in 1..(Len(s) \div 2) : <<s[2 * i - 1], s[2 * i]>> \in NarrowDigraphs

WideOf(d) == (CHOOSE e \in Range(WideKatakanaMap) : e[1] = d)[2][1]

WideOfDigraphs(s) == [i \in 1..(Len(s) \div 2) |-> WideOf(<<s[2 * i - 1], s[2 * i]>>)]

VoicingMarks == {12441, 12442, 12443, 12444, 65438, 65439}

\* C1: toKatakana (the default, widening) turns a string of narrow digraphs
\* (narrow base + narrow voicing or semi-voicing mark) into the string of the
\* single wide precomposed katakana, one for each digraph, and leaves no
\* voicing mark behind.
C1_DigraphsWiden ==
  (op = "toKatakana" /\ argFlag /\ IsDigraphString(pre)) =>
    /\ buf = WideOfDigraphs(pre)
    /\ \A i \in 1..Len(buf) : buf[i] \notin VoicingMarks

\* eight narrow ga have become eight wide GA
C1_Witness ==
  /\ op = "toKatakana" /\ argFlag /\ pre = EightNarrowGa
  /\ buf = [i \in 1..8 |-> 12460]

\* every spacing mark (U+309B, U+309C) made combining (U+3099, U+309A)
SpacingToCombining(d) ==
  [i \in 1..Len(d) |-> IF d[i] \in {12443, 12444} THEN d[i] - 2 ELSE d[i]]

\* C2: toHiragana(true) is toHiragana(false) with every spacing voicing mark
\* (U+309B, U+309C) replaced by the combining mark (U+3099, U+309A): no kana
\* is merged with its mark, and every other position is the same.
C2_CombineOnlyMarks ==
  (op = "toHiragana" /\ argFlag) => buf = SpacingToCombining(toHiragana(pre, FALSE))

----------------------------------------------------------------------------
(* Characters, search and extraction.                                      *)

MaxFrom == 2
MaxSearchLen == 2

IsHigh(c) == c \in 55296..56319
IsLow(c) == c \in 56320..57343
IsSurrogate(c) == c \in 55296..57343

\* Jaco._toArray: this.$.match(/[\uD800-\uDBFF][\uDC00-\uDFFF]|[^\uD800-\uDFFF]/g) || []
RECURSIVE ToArrayFrom(_, _)
ToArrayFrom(s, i) ==
  IF i > Len(s) THEN <<>>
  ELSE IF IsHigh(s[i]) /\ i < Len(s) /\ IsLow(s[i + 1])
       THEN <<SubSeq(s, i, i + 1)>> \o ToArrayFrom(s, i + 2)
       ELSE IF ~IsSurrogate(s[i])
            THEN <<SubSeq(s, i, i)>> \o ToArrayFrom(s, i + 1)
            ELSE ToArrayFrom(s, i + 1)

_toArray(s) == ToArrayFrom(s, 1)

\* Array.prototype.join('')
RECURSIVE Join(_)
Join(arr) == IF arr = <<>> THEN <<>> ELSE Head(arr) \o Join(Tail(arr))

\* the getter Jaco.length
length(s) == Len(_toArray(s))

\* Jaco.size
size(s) == Len(s)

\* Array.prototype.indexOf(searchElement, fromIndex), fromIndex an integer
ArrayIndexOf(arr, searchElement, fromIndex) ==
  IF fromIndex >= Len(arr) THEN -1
  ELSE LET k    == IF fromIndex >= 0 THEN fromIndex ELSE Max(Len(arr) + fromIndex, 0)
           hits == {j \in k..(Len(arr) - 1) : arr[j + 1] = searchElement}
       IN  IF hits = {} THEN -1 ELSE CHOOSE j \in hits : \A h \in hits : j <= h

\* Jaco.indexOf
indexOf(s, str, fromIndex) == ArrayIndexOf(_toArray(s), str, fromIndex)

\* Jaco.includes (search.length counts code units)
includes(s, search, position) ==
  IF position + Len(search) > length(s) THEN FALSE
  ELSE indexOf(s, search, position) # -1

\* String.prototype.split(separator)[0] for a separator that is a non-empty
\* literal: the text before its first occurrence, all of s when there is none
SplitFirst(s, separator) ==
  LET occ == Occurrences(s, separator)
  IN  IF occ = {} THEN s
      ELSE SubSeq(s, 1, (CHOOSE i \in occ : \A j \in occ : i <= j) - 1)

\* Jaco.search, the searcher a non-empty literal without metacharacters
search(s, searcher) == length(SplitFirst(s, searcher))

\* String.prototype.slice(from, to); to is absent when hasTo is false
StringSlice(s, from, hasTo, to) ==
  LET len == Len(s)
      rel(n) == IF n < 0 THEN Max(len + n, 0) ELSE Min(n, len)
      a == rel(from)
      b == IF hasTo THEN rel(to) ELSE len
  IN  SubSeq(s, a + 1, b)

\* Jaco.slice
slice(s, from, hasTo, to) == StringSlice(s, from, hasTo, to)

\* Jaco.substr: new Jaco(this.$.slice(start, length))
substr(s, start, hasLength, len) == StringSlice(s, start, hasLength, len)

\* util/arrayize: every paired surrogate one character, every other code unit
\* one character
RECURSIVE ArrayizeFrom(_, _)
ArrayizeFrom(s, i) ==
  IF i > Len(s) THEN <<>>
  ELSE IF IsHigh(s[i]) /\ i < Len(s) /\ IsLow(s[i + 1])
       THEN <<SubSeq(s, i, i + 1)>> \o ArrayizeFrom(s, i + 2)
       ELSE <<SubSeq(s, i, i)>> \o ArrayizeFrom(s, i + 1)

arrayize(s) == ArrayizeFrom(s, 1)

\* fn/slice with a start only: the characters from start on
fnSlice(str, start) ==
  LET arr == arrayize(str) IN Join(SubSeq(arr, Min(start, Len(arr)) + 1, Len(arr)))

\* fn/split: str.split(separator)
fnSplitFirst(str, separator) == SplitFirst(str, separator)

\* fn/is: str === target
fnIs(str, target) == str = target

\* fn/indexOf
fnIndexOf(str, searchStr, fromIndex) ==
  LET sliced  == fnSlice(str, fromIndex)
      splited == fnSplitFirst(sliced, searchStr)
  IN  IF fnIs(str, splited) THEN -1
      ELSE Len(arrayize(splited)) + fromIndex

----------------------------------------------------------------------------
(* The character operations as operations of a wrapper.                    *)

\* a, b, a high surrogate (U+D83D) and a low surrogate (U+DE00)
CharAlphabet == {97, 98, 55357, 56832}

CharInputs == StringsUpTo(CharAlphabet, MaxLen)

\* what is searched for: short strings of a and b, and one astral character
SearchStrings ==
  (StringsUpTo({97, 98}, MaxSearchLen) \ {<<>>}) \cup {<<55357, 56832>>}

\* an operation that leaves the buffer alone and returns a value
Query(name, str, num, hasNum2, num2) ==
  /\ op = "ready"
  /\ op' = name /\ pre' = buf /\ buf' = buf
  /\ argStr' = str /\ argNum' = num /\ argNum2' = num2
  /\ argKind' = IF hasNum2 THEN "finite" ELSE "omitted"
  /\ argFlag' = FALSE /\ argFlag2' = FALSE
  /\ err' = "none" /\ NoLocals

Length ==
  /\ Query("length", <<>>, 0, FALSE, 0)
  /\ retNum' = length(buf) /\ retArr' = _toArray(buf)
  /\ retStr' = <<>> /\ retFlag' = FALSE

Size ==
  /\ Query("size", <<>>, 0, FALSE, 0)
  /\ retNum' = size(buf)
  /\ retArr' = <<>> /\ retStr' = <<>> /\ retFlag' = FALSE

IndexOf ==
  \E str \in SearchStrings, fromIndex \in 0..MaxFrom :
    /\ Query("indexOf", str, fromIndex, FALSE, 0)
    /\ retNum' = indexOf(buf, str, fromIndex)
    /\ retArr' = <<>> /\ retStr' = <<>> /\ retFlag' = FALSE

Includes ==
  \E str \in SearchStrings, position \in 0..MaxFrom :
    /\ Query("includes", str, position, FALSE, 0)
    /\ retFlag' = includes(buf, str, position)
    /\ retNum' = 0 /\ retArr' = <<>> /\ retStr' = <<>>

FnIndexOf ==
  \E str \in SearchStrings, fromIndex \in 0..MaxFrom :
    /\ Query("fn.indexOf", str, fromIndex, FALSE, 0)
    /\ retNum' = fnIndexOf(buf, str, fromIndex)
    /\ retArr' = <<>> /\ retStr' = <<>> /\ retFlag' = FALSE

Search ==
  \E searcher \in SearchStrings :
    /\ Query("search", searcher, 0, FALSE, 0)
    /\ retNum' = search(buf, searcher)
    /\ retArr' = <<>> /\ retStr' = <<>> /\ retFlag' = FALSE

Slice ==
  \E from \in 0..MaxLen, hasTo \in BOOLEAN, to \in 0..MaxLen :
    /\ hasTo \/ to = 0
    /\ Query("slice", <<>>, from, hasTo, to)
    /\ retStr' = slice(buf, from, hasTo, to)
    /\ retNum' = 0 /\ retArr' = <<>> /\ retFlag' = FALSE

Substr ==
  \E start \in 0..MaxLen, hasLength \in BOOLEAN, len \in 0..MaxLen :
    /\ hasLength \/ len = 0
    /\ Query("substr", <<>>, start, hasLength, len)
    /\ retStr' = substr(buf, start, hasLength, len)
    /\ retNum' = 0 /\ retArr' = <<>> /\ retFlag' = FALSE

InitChars == Fresh(CharInputs)

NextChars ==
  Length \/ Size \/ IndexOf \/ Includes \/ FnIndexOf \/ Search \/ Slice \/ Substr \/ Chain

SpecChars == InitChars /\ [][NextChars]_vars

----------------------------------------------------------------------------
(* Claims about the character operations.                                  *)

HasPair(s) == \E i \in 1..(Len(s) - 1) : IsHigh(s[i]) /\ IsLow(s[i + 1])

\* C3: the surrogate-aware length is at most size(), equal to it exactly when
\* the buffer holds no surrogate pair, and the characters of the array-ized
\* buffer, concatenated, are the buffer.
C3_LengthAndArray ==
  op = "length" =>
    /\ retNum <= size(buf)
    /\ (retNum = size(buf)) <=> ~HasPair(buf)
    /\ Join(retArr) = buf

\* the characters of s, each paired surrogate one character
Chars(s) == arrayize(s)

\* str occurs in s at character index i
OccursAt(s, str, i) ==
  LET c == Chars(s)
      n == Chars(str)
  IN  /\ i + Len(n) <= Len(c)
      /\ SubSeq(c, i + 1, i + Len(n)) = n

\* the smallest character index >= fromIndex where str occurs in s, else -1
FirstIndex(s, str, fromIndex) ==
  LET hits == {i \in fromIndex..Len(Chars(s)) : OccursAt(s, str, i)}
  IN  IF hits = {} THEN -1 ELSE CHOOSE i \in hits : \A h \in hits : i <= h

\* C4: indexOf(str, fromIndex) is the smallest character index i >= fromIndex
\* at which str, of one character or several, occurs in the buffer, and -1
\* only when there is none.
C4_IndexOfSubstring ==
  op = "indexOf" => retNum = FirstIndex(pre, argStr, argNum)

\* C5: the free function indexOf(str, search, fromIndex) is -1 when search
\* does not occur at or after fromIndex, whatever fromIndex >= 0 is, and the
\* character index of the first such occurrence otherwise.
C5_FnIndexOfFrom ==
  op = "fn.indexOf" => retNum = FirstIndex(pre, argStr, argNum)

\* C6: search(searcher) is the character index of the first match, and -1
\* when the buffer holds no match.
C6_SearchOrMinusOne ==
  op = "search" => retNum = FirstIndex(pre, argStr, 0)

\* C7: substr(start, length) leaves the buffer alone and returns the length
\* characters from start on (all of them from start on when length is
\* omitted), for start and length within the buffer.
C7_SubstrStartLength ==
  (op = "substr" /\ argNum <= Len(pre)
     /\ (argKind = "finite" => argNum + argNum2 <= Len(pre))) =>
    /\ buf = pre
    /\ retStr = SubSeq(pre, argNum + 1,
                       IF argKind = "finite" THEN argNum + argNum2 ELSE Len(pre))

----------------------------------------------------------------------------
(* Width conversion, numeric clean-up and repeat as operations of a        *)
(* wrapper.                                                                *)

MaxTimes == 3

\* a mutating, chainable operation with two boolean arguments
MutateFlags(name, flag, flag2, result) ==
  /\ op = "ready"
  /\ pre' = buf /\ buf' = result /\ op' = name
  /\ argFlag' = flag /\ argFlag2' = flag2
  /\ argStr' = <<>> /\ argNum' = 0 /\ argNum2' = 0 /\ argKind' = "none"
  /\ NoRet /\ NoLocals

ToNarrow ==
  \E convertJapaneseChars \in BOOLEAN :
    MutateFlag("toNarrow", convertJapaneseChars, toNarrow(buf, convertJapaneseChars))

ToWide == Mutate("toWide", toWide(buf))

ToNumeric ==
  \E negative \in BOOLEAN, floatingPoint \in BOOLEAN :
    MutateFlags("toNumeric", negative, floatingPoint,
                toNumeric(buf, negative, floatingPoint))

\* The counts repeat is called with: the halves from -2 to MaxTimes + 1/2,
\* the two infinities and NaN.
RepeatCounts ==
  {<<"finite", h>> : h \in (-4)..(2 * MaxTimes + 1)}
    \cup {<<"inf", 0>>, <<"ninf", 0>>, <<"nan", 0>>}

\* Only a buffer of at most MaxLen code units is repeated, which keeps the
\* buffers of the model finite.
Repeat ==
  \E times \in RepeatCounts :
    /\ op = "ready" /\ Len(buf) <= MaxLen
    /\ op' = "repeat" /\ pre' = buf
    /\ argKind' = times[1] /\ argNum' = times[2]
    /\ argStr' = <<>> /\ argNum2' = 0 /\ argFlag' = FALSE /\ argFlag2' = FALSE
    /\ buf' = repeat(buf, times[1], times[2])
    /\ err' = IF repeatThrows(times[1]) THEN "RangeError" ELSE "none"
    /\ retNum' = 0 /\ retStr' = <<>> /\ retArr' = <<>> /\ retFlag' = FALSE
    /\ NoLocals

\* space, !, 5, A, ~ and the ideographic space
WidthAlphabet == {32, 33, 53, 65, 126, 12288}

WidthInputs == StringsUpTo(WidthAlphabet, MaxLen)

InitWidth == Fresh(WidthInputs)

NextWidth == ToNarrow \/ ToWide \/ Chain

SpecWidth == InitWidth /\ [][NextWidth]_vars

\* -, ., 5, the prolonged sound mark U+30FC, full-width - . 5
NumericAlphabet == {45, 46, 53, 12540, 65293, 65294, 65301}

\* the example of the documentation, U+30FC 1 2 . 5 in full width, and the
\* same with the full-width hyphen-minus U+FF0D
NumericFixtures ==
  {<<12540, 65297, 65298, 65294, 65301>>, <<65293, 65297, 65298, 65294, 65301>>}

NumericInputs == StringsUpTo(NumericAlphabet, MaxLen) \cup NumericFixtures

InitNumeric == Fresh(NumericInputs)

NextNumeric == ToNumeric \/ Chain

SpecNumeric == InitNumeric /\ [][NextNumeric]_vars

RepeatInputs == StringsUpTo({97, 98}, MaxLen)

InitRepeat == Fresh(RepeatInputs)

NextRepeat == Repeat \/ Chain

SpecRepeat == InitRepeat /\ [][NextRepeat]_vars

----------------------------------------------------------------------------
(* Claims about width conversion, numeric clean-up and repeat.             *)

FullWidthDigits == 65296..65305

\* a leading full-width or long minus sign, then full-width digits with one
\* full-width dot among them, digits on both sides of it
IsMinusDigitsDot(s) ==
  /\ Len(s) >= 4
  /\ s[1] \in {65293, 12540}
  /\ \E d \in 3..(Len(s) - 1) :
       /\ s[d] = 65294
       /\ \A i \in 2..Len(s) : i # d => s[i] \in FullWidthDigits

\* the same number in ASCII: -, and every digit and the dot 65248 lower
AsciiNumber(s) == [i \in 1..Len(s) |-> IF i = 1 THEN 45 ELSE s[i] - 65248]

\* C8: toNumeric(true, true) turns a leading full-width or long minus sign,
\* full-width digits and a full-width dot into the ASCII number ("-12.5" for
\* the example), keeps no hyphen but a leading one and no dot but one; with
\* the defaults every hyphen and dot is stripped.
C8_NumericCleaned ==
  op = "toNumeric" =>
    /\ (argFlag /\ argFlag2 /\ IsMinusDigitsDot(pre)) => buf = AsciiNumber(pre)
    /\ \A i \in 2..Len(buf) : buf[i] # 45
    /\ Cardinality({i \in 1..Len(buf) : buf[i] = 46}) <= 1
    /\ (~argFlag) => \A i \in 1..Len(buf) : buf[i] # 45
    /\ (~argFlag2) => \A i \in 1..Len(buf) : buf[i] # 46

IsAsciiWithSign(s) == \A i \in 1..Len(s) : s[i] \in ALPHANUMERIC_CHARS_WITH_SIGN

\* C9: toNarrow undoes toWide on a string of the ASCII alphanumeric-with-sign
\* range, spaces and repeated characters included.
C9_WideNarrowRoundTrip ==
  (op = "toWide" /\ IsAsciiWithSign(pre)) => toNarrow(buf, FALSE) = pre

\* n copies of s
Copies(s, n) ==
  IF s = <<>> THEN <<>> ELSE [i \in 1..(n * Len(s)) |-> s[((i - 1) % Len(s)) + 1]]

\* C10: repeat(times) leaves floor(max(times, 0)) copies of the buffer, none
\* for a negative count; for positive infinity it throws the RangeError and
\* leaves the buffer as it was; no other count makes it throw.
C10_RepeatFloorOrThrow ==
  op = "repeat" =>
    /\ argKind = "inf" => (err = "RangeError" /\ buf = pre)
    /\ argKind # "inf" => err = "none"
    /\ argKind = "finite" =>
         buf = Copies(pre, IF argNum <= 0 THEN 0 ELSE argNum \div 2)
    /\ argKind = "ninf" => buf = <<>>

\* "ab" repeated 2.5 times is "abab"
C10_Witness ==
  /\ op = "repeat" /\ argKind = "finite" /\ argNum = 5
  /\ pre = <<97, 98>> /\ buf = <<97, 98, 97, 98>>

----------------------------------------------------------------------------
(* Voicing, small letters, prolonged-sound marks and iteration marks.      *)

\* HIRAGANA_CHARS_IGNORE_ITERATION_MARKS: HIRAGANA_CHARS without U+309D, U+309E
HIRAGANA_CHARS_IGNORE_ITERATION_MARKS == HIRAGANA_CHARS \ {12445, 12446}
\* KATAKANA_CHARS_IGNORE_ITERATION_MARKS: KATAKANA_CHARS without U+30FD, U+30FE
KATAKANA_CHARS_IGNORE_ITERATION_MARKS == KATAKANA_CHARS \ {12541, 12542}
\* KANA_COMMON_CAHRS: the prolonged-sound mark U+30FC, the middle dot U+30FB
\* and the four iteration marks
KANA_COMMON_CAHRS == {12540, 12539, 12445, 12446, 12541, 12542}

AddVoicedMap ==
  <<
    <<<<12363>>, <<12364>>>>, <<<<12365>>, <<12366>>>>, <<<<12367>>, <<12368>>>>, <<<<12369>>, <<12370>>>>,
    <<<<12371>>, <<12372>>>>, <<<<12373>>, <<12374>>>>, <<<<12375>>, <<12376>>>>, <<<<12377>>, <<12378>>>>,
    <<<<12379>>, <<12380>>>>, <<<<12381>>, <<12382>>>>, <<<<12383>>, <<12384>>>>, <<<<12385>>, <<12386>>>>,
    <<<<12388>>, <<12389>>>>, <<<<12390>>, <<12391>>>>, <<<<12392>>, <<12393>>>>, <<<<12399>>, <<12400>>>>,
    <<<<12402>>, <<12403>>>>, <<<<12405>>, <<12406>>>>, <<<<12408>>, <<12409>>>>, <<<<12411>>, <<12412>>>>,
    <<<<12459>>, <<12460>>>>, <<<<12461>>, <<12462>>>>, <<<<12463>>, <<12464>>>>, <<<<12465>>, <<12466>>>>,
    <<<<12467>>, <<12468>>>>, <<<<12469>>, <<12470>>>>, <<<<12471>>, <<12472>>>>, <<<<12473>>, <<12474>>>>,
    <<<<12475>>, <<12476>>>>, <<<<12477>>, <<12478>>>>, <<<<12479>>, <<12480>>>>, <<<<12481>>, <<12482>>>>,
    <<<<12484>>, <<12485>>>>, <<<<12486>>, <<12487>>>>, <<<<12488>>, <<12489>>>>, <<<<12495>>, <<12496>>>>,
    <<<<12498>>, <<12499>>>>, <<<<12501>>, <<12502>>>>, <<<<12504>>, <<12505>>>>, <<<<12507>>, <<12508>>>>,
    <<<<12527>>, <<12535>>>>, <<<<12452>>, <<12536>>>>, <<<<12454>>, <<12532>>>>, <<<<12456>>, <<12537>>>>,
    <<<<12538>>, <<12530>>>>, <<<<12445>>, <<12446>>>>, <<<<12541>>, <<12542>>>>
  >>

RemoveVoicedMap ==
  <<
    <<<<12364>>, <<12363>>>>, <<<<12366>>, <<12365>>>>, <<<<12368>>, <<12367>>>>, <<<<12370>>, <<12369>>>>,
    <<<<12372>>, <<12371>>>>, <<<<12374>>, <<12373>>>>, <<<<12376>>, <<12375>>>>, <<<<12378>>, <<12377>>>>,
    <<<<12380>>, <<12379>>>>, <<<<12382>>, <<12381>>>>, <<<<12384>>, <<12383>>>>, <<<<12386>>, <<12385>>>>,
    <<<<12389>>, <<12388>>>>, <<<<12391>>, <<12390>>>>, <<<<12393>>, <<12392>>>>, <<<<12400>>, <<12399>>>>,
    <<<<12403>>, <<12402>>>>, <<<<12406>>, <<12405>>>>, <<<<12409>>, <<12408>>>>, <<<<12412>>, <<12411>>>>,
    <<<<12401>>, <<12399>>>>, <<<<12404>>, <<12402>>>>, <<<<12407>>, <<12405>>>>, <<<<12410>>, <<12408>>>>,
    <<<<12413>>, <<12411>>>>, <<<<12460>>, <<12459>>>>, <<<<12462>>, <<12461>>>>, <<<<12464>>, <<12463>>>>,
    <<<<12466>>, <<12465>>>>, <<<<12468>>, <<12467>>>>, <<<<12470>>, <<12469>>>>, <<<<12472>>, <<12471>>>>,
    <<<<12474>>, <<12473>>>>, <<<<12476>>, <<12475>>>>, <<<<12478>>, <<12477>>>>, <<<<12480>>, <<12479>>>>,
    <<<<12482>>, <<12481>>>>, <<<<12485>>, <<12484>>>>, <<<<12487>>, <<12486>>>>, <<<<12489>>, <<12488>>>>,
    <<<<12496>>, <<12495>>>>, <<<<12499>>, <<12498>>>>, <<<<12502>>, <<12501>>>>, <<<<12505>>, <<12504>>>>,
    <<<<12508>>, <<12507>>>>, <<<<12497>>, <<12495>>>>, <<<<12500>>, <<12498>>>>, <<<<12503>>, <<12501>>>>,
    <<<<12506>>, <<12504>>>>, <<<<12509>>, <<12507>>>>, <<<<12535>>, <<12527>>>>, <<<<12536>>, <<12452>>>>,
    <<<<12532>>, <<12454>>>>, <<<<12537>>, <<12456>>>>, <<<<12538>>, <<12530>>>>, <<<<12446>>, <<12445>>>>,
    <<<<12542>>, <<12541>>>>
  >>

BasicLetterMap ==
  <<
    <<<<12353>>, <<12354>>>>, <<<<12355>>, <<12356>>>>, <<<<12357>>, <<12358>>>>, <<<<12359>>, <<12360>>>>,
    <<<<12361>>, <<12362>>>>, <<<<12387>>, <<12388>>>>, <<<<12419>>, <<12420>>>>, <<<<12421>>, <<12422>>>>,
    <<<<12423>>, <<12424>>>>, <<<<12430>>, <<12431>>>>, <<<<12449>>, <<12450>>>>, <<<<12451>>, <<12452>>>>,
    <<<<12453>>, <<12454>>>>, <<<<12455>>, <<12456>>>>, <<<<12457>>, <<12458>>>>, <<<<12533>>, <<12459>>>>,
    <<<<12784>>, <<12463>>>>, <<<<12534>>, <<12465>>>>, <<<<12785>>, <<12471>>>>, <<<<12786>>, <<12473>>>>,
    <<<<12483>>, <<12484>>>>, <<<<12787>>, <<12488>>>>, <<<<12788>>, <<12492>>>>, <<<<12789>>, <<12495>>>>,
    <<<<12790>>, <<12498>>>>, <<<<12791>>, <<12501>>>>, <<<<12792>>, <<12504>>>>, <<<<12793>>, <<12507>>>>,
    <<<<12794>>, <<12512>>>>, <<<<12515>>, <<12516>>>>, <<<<12517>>, <<12518>>>>, <<<<12519>>, <<12520>>>>,
    <<<<12795>>, <<12521>>>>, <<<<12796>>, <<12522>>>>, <<<<12797>>, <<12523>>>>, <<<<12798>>, <<12524>>>>,
    <<<<12799>>, <<12525>>>>, <<<<12526>>, <<12527>>>>
  >>

\* the character class of hasSmallLetter
SmallLetters ==
  {12353, 12355, 12357, 12359, 12361, 12387, 12419, 12421, 12423, 12430, 12449,
   12451, 12453, 12455, 12457, 12533, 12784, 12534, 12785, 12786, 12483, 12787,
   12788, 12789, 12790, 12791, 12792, 12793, 12794, 12515, 12517, 12519, 12795,
   12796, 12797, 12798, 12799, 12526}

\* The replacements of conv in convertProlongedSoundMarks, in their order:
\* the characters a prolonged-sound mark may follow and the character that
\* then takes the place of the mark.
ProlongedSoundRules ==
  <<
    <<{12353, 12354, 12363, 12364, 12373, 12374, 12383, 12384, 12394, 12399, 12400,
       12401, 12414, 12419, 12420, 12425, 12430, 12431, 12437},
      12354>>,
    <<{12355, 12356, 12365, 12366, 12375, 12376, 12385, 12386, 12395, 12402, 12403,
       12404, 12415, 12426, 12432},
      12356>>,
    <<{12357, 12358, 12367, 12368, 12377, 12378, 12388, 12389, 12396, 12405, 12406,
       12407, 12416, 12421, 12422, 12427, 12436},
      12358>>,
    <<{12359, 12360, 12369, 12370, 12379, 12380, 12390, 12391, 12397, 12408, 12409,
       12410, 12417, 12428, 12433, 12438},
      12360>>,
    <<{12361, 12362, 12371, 12372, 12381, 12382, 12392, 12393, 12398, 12411, 12412,
       12413, 12418, 12423, 12424, 12429, 12434},
      12362>>,
    <<{12435},
      12435>>,
    <<{12387},
      12387>>,
    <<{12449, 12450, 12459, 12460, 12469, 12470, 12479, 12480, 12490, 12495, 12496,
       12497, 12510, 12515, 12516, 12521, 12526, 12527, 12533, 12535},
      12450>>,
    <<{12451, 12452, 12461, 12462, 12471, 12472, 12481, 12482, 12491, 12498, 12499,
       12500, 12511, 12522, 12528, 12536},
      12452>>,
    <<{12453, 12454, 12463, 12464, 12473, 12474, 12484, 12485, 12492, 12501, 12502,
       12503, 12512, 12517, 12518, 12523, 12532},
      12454>>,
    <<{12455, 12456, 12465, 12466, 12475, 12476, 12486, 12487, 12493, 12504, 12505,
       12506, 12513, 12524, 12529, 12534, 12537},
      12456>>,
    <<{12457, 12458, 12467, 12468, 12477, 12478, 12488, 12489, 12494, 12507, 12508,
       12509, 12514, 12519, 12520, 12525, 12530, 12538},
      12458>>,
    <<{12531},
      12531>>,
    <<{12483},
      12483>>
  >>

\* a voiced mark standing alone, in its three encodings, and a semi-voiced one
VoicedSingleMarks == {12443, 12441, 65438}
SemivoicedSingleMarks == {12444, 12442, 65439}

addVoicedMarks(s) ==
  replaceFromMap(RemoveChars(RemoveChars(s, VoicedSingleMarks), SemivoicedSingleMarks),
                 AddVoicedMap)

removeVoicedMarks(s, ignoreSingleMark) ==
  LET single == IF ignoreSingleMark THEN s
                ELSE RemoveChars(RemoveChars(s, VoicedSingleMarks), SemivoicedSingleMarks)
  IN  replaceFromMap(single, RemoveVoicedMap)

toBasicLetter(s) == replaceFromMap(combinateSoundMarks(s, FALSE), BasicLetterMap)

hasSmallLetter(s) == \E i \in 1..Len(s) : s[i] \in SmallLetters

\* _str.replace(/([class])ー/g, '$1' + vowel): every character of the
\* class that the prolonged-sound mark follows keeps its place and the mark
\* becomes the vowel, left to right.
RECURSIVE ProlongFrom(_, _, _, _)
ProlongFrom(s, class, vowel, i) ==
  IF i > Len(s) THEN <<>>
  ELSE IF i < Len(s) /\ s[i] \in class /\ s[i + 1] = 12540
       THEN <<s[i], vowel>> \o ProlongFrom(s, class, vowel, i + 2)
       ELSE <<s[i]>> \o ProlongFrom(s, class, vowel, i + 1)

\* the replacements n..Len(ProlongedSoundRules) of conv, one after the other
\* (next is bound by a quantifier so that TLC computes each replacement once)
RECURSIVE ProlongRules(_, _)
ProlongRules(s, n) ==
  IF n > Len(ProlongedSoundRules) THEN s
  ELSE CHOOSE result \in
         {ProlongRules(next, n + 1) :
            next \in {ProlongFrom(s, ProlongedSoundRules[n][1], ProlongedSoundRules[n][2], 1)}} :
         TRUE

\* conv of convertProlongedSoundMarks: one pass of the loop
prolongedConv(s) == ProlongRules(s, 1)

\* kanaWithProlongedSoundMarksPattern.test(converted)
kanaWithProlongedSoundMarksPattern(s) ==
  \E i \in 1..(Len(s) - 1) :
    s[i] \in (HIRAGANA_CHARS \cup KATAKANA_CHARS) /\ s[i + 1] = 12540

\* The loop of convertProlongedSoundMarks never ends on s: the pattern still
\* matches after a pass that changed nothing.  (A pass that changes the
\* string removes a prolonged-sound mark.)
RECURSIVE prolongedLoopForever(_)
prolongedLoopForever(s) ==
  /\ kanaWithProlongedSoundMarksPattern(s)
  /\ LET next == prolongedConv(s)
     IN  next = s \/ prolongedLoopForever(next)

\* convertProlongedSoundMarks: the buffer the loop leaves when it ends
RECURSIVE convertProlongedSoundMarks(_)
convertProlongedSoundMarks(s) ==
  IF ~kanaWithProlongedSoundMarksPattern(s) THEN s
  ELSE LET next == prolongedConv(s)
       IN  IF next = s THEN s ELSE convertProlongedSoundMarks(next)

IterationMarks == {12445, 12446, 12541, 12542}

\* the positions where kanaWithIterationMarks matches
IterationPairs(s) ==
  {i \in 1..(Len(s) - 1) :
     /\ s[i] \in (HIRAGANA_CHARS_IGNORE_ITERATION_MARKS
                    \cup KATAKANA_CHARS_IGNORE_ITERATION_MARKS)
     /\ s[i + 1] \in IterationMarks}

\* the replacer of conv in convertIterationMarks, without beforeString: the
\* copy that takes the place of the iteration mark (unvoiced is the wrapper
\* the source calls converted, after removeVoicedMarks)
iterationCopy(beforeString, iterationMark) ==
  LET unvoiced == removeVoicedMarks(<<beforeString>>, FALSE)
  IN  CASE iterationMark = 12445 -> toHiragana(unvoiced, FALSE)
        [] iterationMark = 12541 -> toKatakana(unvoiced, TRUE)
        [] iterationMark = 12446 -> addVoicedMarks(toHiragana(unvoiced, FALSE))
        [] iterationMark = 12542 -> addVoicedMarks(toKatakana(unvoiced, TRUE))
        [] OTHER -> unvoiced

\* conv of convertIterationMarks: the pattern is not global, the first match
\* only is replaced
iterationConv(s) ==
  LET i == CHOOSE k \in IterationPairs(s) : \A j \in IterationPairs(s) : k <= j
  IN  SubSeq(s, 1, i) \o iterationCopy(s[i], s[i + 1]) \o SubSeq(s, i + 2, Len(s))

\* convertIterationMarks: while (kanaWithIterationMarks.test(this.$)) conv
RECURSIVE convertIterationMarks(_)
convertIterationMarks(s) ==
  IF IterationPairs(s) = {} THEN s ELSE convertIterationMarks(iterationConv(s))

toPhoeticKana(s) ==
  convertIterationMarks(convertProlongedSoundMarks(toBasicLetter(toHiragana(s, FALSE))))

----------------------------------------------------------------------------
(* Iteration marks: the operations of a wrapper and what is expected.      *)

AddVoicedMarks == Mutate("addVoicedMarks", addVoicedMarks(buf))

RemoveVoicedMarks ==
  \E ignoreSingleMark \in BOOLEAN :
    MutateFlag("removeVoicedMarks", ignoreSingleMark,
               removeVoicedMarks(buf, ignoreSingleMark))

ConvertIterationMarks == Mutate("convertIterationMarks", convertIterationMarks(buf))

\* hiragana ka, ga, u, vu; katakana ka, wo; the four iteration marks
IterationAlphabet ==
  {12363, 12364, 12358, 12436, 12459, 12530, 12445, 12446, 12541, 12542}

\* every character of the two classes followed by every iteration mark
KanaMarkPairs ==
  {<<k, m>> : k \in (HIRAGANA_CHARS_IGNORE_ITERATION_MARKS
                       \cup KATAKANA_CHARS_IGNORE_ITERATION_MARKS),
              m \in IterationMarks}

IterationInputs == StringsUpTo(IterationAlphabet, MaxLen) \cup KanaMarkPairs

InitIteration == Fresh(IterationInputs)

NextIteration == AddVoicedMarks \/ RemoveVoicedMarks \/ ConvertIterationMarks \/ Chain

SpecIteration == InitIteration /\ [][NextIteration]_vars

\* the kana letters: hiragana U+3041..U+3096, katakana U+30A1..U+30FA
HiraganaLetters == 12353..12438
KatakanaLetters == 12449..12538

\* The rows ka..ti, tu..to and ha..ho of hiragana: a voiced letter is the
\* code point after its plain letter, a semi-voiced one the second after.
HiraganaVoicedRows ==
  {c \in 12363..12385 : c % 2 = 1} \cup {12388, 12390, 12392}
    \cup {12399, 12402, 12405, 12408, 12411}

\* plain letter and voiced letter; u and vu; katakana wa, wi, we, wo
VoicedPairs ==
  LET hiragana == {<<c, c + 1>> : c \in HiraganaVoicedRows} \cup {<<12358, 12436>>}
  IN  hiragana \cup {<<p[1] + 96, p[2] + 96>> : p \in hiragana}
        \cup {<<12527, 12535>>, <<12528, 12536>>, <<12529, 12537>>, <<12530, 12538>>}

SemivoicedPairs ==
  LET hiragana == {<<c, c + 2>> : c \in {12399, 12402, 12405, 12408, 12411}}
  IN  hiragana \cup {<<p[1] + 96, p[2] + 96>> : p \in hiragana}

\* the letter without its voiced or semi-voiced mark
Unvoiced(c) ==
  LET from == {p \in VoicedPairs \cup SemivoicedPairs : p[2] = c}
  IN  IF from = {} THEN c ELSE (CHOOSE p \in from : TRUE)[1]

\* the voiced letter, where the script has one
Voiced(c) ==
  LET to == {p \in VoicedPairs : p[1] = c}
  IN  IF to = {} THEN c ELSE (CHOOSE p \in to : TRUE)[2]

InHiragana(c) == IF c \in 12449..12534 THEN c - 96 ELSE c
InKatakana(c) == IF c \in HiraganaLetters THEN c + 96 ELSE c

\* The copy an iteration mark stands for: the kana before it without its
\* mark, in the script of the iteration mark, voiced if the mark is voiced.
ExpectedCopy(k, m) ==
  LET plain    == Unvoiced(k)
      scripted == IF m \in {12445, 12446} THEN InHiragana(plain) ELSE InKatakana(plain)
  IN  IF m \in {12446, 12542} THEN Voiced(scripted) ELSE scripted

\* every iteration mark that follows a kana, left to right, replaced by the
\* copy of what then precedes it
RECURSIVE ExpandFrom(_, _, _)
ExpandFrom(s, i, done) ==
  IF i > Len(s) THEN done
  ELSE IF /\ s[i] \in IterationMarks /\ done # <<>>
          /\ done[Len(done)] \in (HiraganaLetters \cup KatakanaLetters)
       THEN ExpandFrom(s, i + 1, Append(done, ExpectedCopy(done[Len(done)], s[i])))
       ELSE ExpandFrom(s, i + 1, Append(done, s[i]))

IsKanaWithMarks(s) ==
  \A i \in 1..Len(s) :
    s[i] \in (HiraganaLetters \cup KatakanaLetters \cup IterationMarks)

\* C11: convertIterationMarks replaces every pair of a kana k and an
\* iteration mark by k and a copy of k: the copy is in hiragana for the two
\* hiragana marks and in katakana for the two katakana marks, it has lost the
\* voiced or semi-voiced mark of k, and it is voiced exactly when the
\* iteration mark is a voiced one; a run of marks is expanded completely,
\* left to right, in the one call.
C11_IterationMarksExpanded ==
  (op = "convertIterationMarks" /\ IsKanaWithMarks(pre)) =>
    buf = ExpandFrom(pre, 1, <<>>)

----------------------------------------------------------------------------
(* The phonetic kana: the operations of a wrapper, the free function.      *)

\* src/fn/toPhoeticKana.ts: the four free functions, each the wrapper's method
\* of the same name with its defaults, one after the other
fnToPhoeticKana(str) ==
  LET hiragana  == toHiragana(str, FALSE)
      basic     == toBasicLetter(hiragana)
      prolonged == convertProlongedSoundMarks(basic)
  IN  convertIterationMarks(prolonged)

\* the buffer that reaches convertProlongedSoundMarks inside toPhoeticKana
BeforeProlonged(s) == toBasicLetter(toHiragana(s, FALSE))

\* The call returns only if the loop of convertProlongedSoundMarks ends.
ToPhoeticKana ==
  /\ ~prolongedLoopForever(BeforeProlonged(buf))
  /\ Mutate("toPhoeticKana", toPhoeticKana(buf))

FnToPhoeticKana ==
  /\ ~prolongedLoopForever(BeforeProlonged(buf))
  /\ Query("fn.toPhoeticKana", buf, 0, FALSE, 0)
  /\ retStr' = fnToPhoeticKana(buf)
  /\ retNum' = 0 /\ retArr' = <<>> /\ retFlag' = FALSE

ToBasicLetter == Mutate("toBasicLetter", toBasicLetter(buf))

HasSmallLetter ==
  /\ Query("hasSmallLetter", <<>>, 0, FALSE, 0)
  /\ retFlag' = hasSmallLetter(buf)
  /\ retNum' = 0 /\ retArr' = <<>> /\ retStr' = <<>>

\* narrow ka, small katakana a, extended small katakana ku (U+31F0), the
\* prolonged-sound mark, the hiragana iteration mark, katakana ka, small
\* hiragana tu, the narrow voicing mark
PhoeticAlphabet == {65398, 12449, 12784, 12540, 12445, 12459, 12387, 65438}

PhoeticInputs == StringsUpTo(PhoeticAlphabet, MaxLen)

InitPhoetic == Fresh(PhoeticInputs)

NextPhoetic == ToPhoeticKana \/ FnToPhoeticKana \/ ToBasicLetter \/ HasSmallLetter \/ Chain

SpecPhoetic == InitPhoetic /\ [][NextPhoetic]_vars

\* katakana letters: wide, extended small (U+31F0..U+31FF) and narrow
IsKatakanaLetter(c) ==
  c \in (KatakanaLetters \cup (12784..12799) \cup (65382..65391) \cup (65393..65437))

IsKana(s) ==
  \A i \in 1..Len(s) :
    \/ s[i] \in (HiraganaLetters \cup IterationMarks \cup {12540})
    \/ s[i] \in (VoicedSingleMarks \cup SemivoicedSingleMarks)
    \/ IsKatakanaLetter(s[i])

\* the four steps in their order, each on the result of the step before
PhoeticSteps(s) ==
  convertIterationMarks(convertProlongedSoundMarks(toBasicLetter(toHiragana(s, FALSE))))

IsPhoeticKey(s) ==
  /\ \A i \in 1..Len(s) : ~IsKatakanaLetter(s[i])
  /\ ~hasSmallLetter(s)

\* C12: toPhoeticKana, the method and the free function alike, is hiragana
\* conversion, small-letter reduction, prolonged-sound expansion and
\* iteration-mark expansion in that order, and on an input of kana (narrow
\* katakana and the extended small katakana included) its result holds no
\* katakana letter and no small letter.
C12_PhoeticKanaIsHiragana ==
  /\ (op = "toPhoeticKana" /\ IsKana(pre)) =>
       (buf = PhoeticSteps(pre) /\ IsPhoeticKey(buf))
  /\ (op = "fn.toPhoeticKana" /\ IsKana(argStr)) =>
       (retStr = PhoeticSteps(argStr) /\ IsPhoeticKey(retStr))

----------------------------------------------------------------------------
(* The class tests.                                                        *)

\* the line terminators of a regular expression: LF, CR, U+2028, U+2029
LineTerminators == {10, 13, 8232, 8233}

\* new RegExp('^[' + characters + ']+$', 'gm').test(s), the class given as
\* the set of its characters: with the flag m, ^ matches at the start of the
\* string and after a line terminator, $ at its end and before a line
\* terminator, so the pattern matches as soon as one stretch between two
\* such places is not empty and holds characters of the class only.
TestOnlyPattern(s, class) ==
  \E i \in 1..Len(s) : \E j \in i..Len(s) :
    /\ i = 1 \/ s[i - 1] \in LineTerminators
    /\ j = Len(s) \/ s[j + 1] \in LineTerminators
    /\ \A k \in i..j : s[k] \in class

isOnly(s, characters) == TestOnlyPattern(s, Range(characters))

isOnlyHiragana(s) == TestOnlyPattern(s, HIRAGANA_CHARS \cup KANA_COMMON_CAHRS)

isOnlyKatakana(s) == TestOnlyPattern(s, KATAKANA_CHARS \cup KANA_COMMON_CAHRS)

\* the character sets isOnly is called with: a; a and b; hiragana a and u
OnlySets == {<<97>>, <<97, 98>>, <<12354, 12358>>}

IsOnly ==
  \E characters \in OnlySets :
    /\ Query("isOnly", characters, 0, FALSE, 0)
    /\ retFlag' = isOnly(buf, characters)
    /\ retNum' = 0 /\ retArr' = <<>> /\ retStr' = <<>>

IsOnlyHiragana ==
  /\ Query("isOnlyHiragana", <<>>, 0, FALSE, 0)
  /\ retFlag' = isOnlyHiragana(buf)
  /\ retNum' = 0 /\ retArr' = <<>> /\ retStr' = <<>>

IsOnlyKatakana ==
  /\ Query("isOnlyKatakana", <<>>, 0, FALSE, 0)
  /\ retFlag' = isOnlyKatakana(buf)
  /\ retNum' = 0 /\ retArr' = <<>> /\ retStr' = <<>>

\* a, b, the line feed, hiragana a, katakana a
OnlyAlphabet == {97, 98, 10, 12354, 12450}

OnlyInputs == StringsUpTo(OnlyAlphabet, MaxLen)

InitOnly == Fresh(OnlyInputs)

NextOnly == IsOnly \/ IsOnlyHiragana \/ IsOnlyKatakana \/ Chain

SpecOnly == InitOnly /\ [][NextOnly]_vars

\* no line of s holds a character outside the class
EveryLineOnly(s, class) ==
  \A i \in 1..Len(s) : s[i] \in (class \cup LineTerminators)

\* s is not empty and none of its lines is
NoEmptyLine(s) ==
  /\ s # <<>> /\ s[1] \notin LineTerminators /\ s[Len(s)] \notin LineTerminators
  /\ \A i \in 1..(Len(s) - 1) :
       ~(s[i] \in LineTerminators /\ s[i + 1] \in LineTerminators)

\* the class the last test was made against
TestedClass ==
  CASE op = "isOnly" -> Range(argStr)
    [] op = "isOnlyHiragana" -> HIRAGANA_CHARS \cup KANA_COMMON_CAHRS
    [] op = "isOnlyKatakana" -> KATAKANA_CHARS \cup KANA_COMMON_CAHRS
    [] OTHER -> {}

\* C13: isOnly, and isOnlyHiragana and isOnlyKatakana with it, is true only
\* if every line of the buffer consists of characters of the set alone (one
\* line with a character outside the set makes it false), and it is true
\* whenever every line does.
C13_IsOnlyEveryLine ==
  op \in {"isOnly", "isOnlyHiragana", "isOnlyKatakana"} =>
    /\ retFlag => EveryLineOnly(pre, TestedClass)
    /\ (EveryLineOnly(pre, TestedClass) /\ NoEmptyLine(pre)) => retFlag

----------------------------------------------------------------------------
(* The width of voiced katakana.                                           *)

ToNarrowKatakana ==
  \E fromHiragana \in BOOLEAN :
    MutateFlag("toNarrowKatakana", fromHiragana, toNarrowKatakana(buf, fromHiragana))

\* the wide katakana of the sample digraphs: ga, ba, pa, va, vu, vo
WideSample == {WideOf(d) : d \in DigraphSample}

\* every wide precomposed voiced or semi-voiced katakana of the tables
WideVoiced == {WideOf(d) : d \in NarrowDigraphs}

WidthKanaInputs ==
  NarrowDigraphs \cup DigraphStringsUpTo(MaxDigraphs)
    \cup {<<w>> : w \in WideVoiced} \cup StringsUpTo(WideSample, MaxDigraphs)

InitWidthKana == Fresh(WidthKanaInputs)

NextWidthKana == ToWideKatakana \/ ToNarrowKatakana \/ Chain

SpecWidthKana == InitWidthKana /\ [][NextWidthKana]_vars

IsWideVoicedString(s) == Len(s) > 0 /\ \A i \in 1..Len(s) : s[i] \in WideVoiced

\* C14: on a narrow digraph of the tables (narrow base + narrow voicing or
\* semi-voicing mark), and on any string of such digraphs, toNarrowKatakana
\* undoes toWideKatakana; on a wide precomposed voiced or semi-voiced
\* katakana, and on any string of them, toWideKatakana undoes
\* toNarrowKatakana.
C14_VoicedWidthRoundTrip ==
  /\ (op = "toWideKatakana" /\ IsDigraphString(pre)) =>
       toNarrowKatakana(buf, FALSE) = pre
  /\ (op = "toNarrowKatakana" /\ ~argFlag /\ IsWideVoicedString(pre)) =>
       toWideKatakana(buf) = pre

\* wide pa and vo have become two narrow digraphs, which widen to them again
C14_Witness ==
  /\ op = "toNarrowKatakana" /\ ~argFlag /\ pre = <<12497, 12538>>
  /\ buf = <<65418, 65439, 65382, 65438>>
  /\ toWideKatakana(buf) = pre

----------------------------------------------------------------------------
(* The entry points katakanize and hiraganize, and the fixtures of the     *)
(* tests.                                                                  *)

\* katakanize(text): a wrapper around text, toKatakana, the buffer
katakanize(text) == toKatakana(text, TRUE)

\* hiraganize(text, combineMarks): a wrapper around text, toHiragana, the buffer
hiraganize(text, combineMarks) == toHiragana(text, combineMarks)

\* src/test/test.js:9-13, the hiragana of the test of katakanize, line by line
HiraganaFixture ==
  <<
    <<
      12434, 12353, 12355, 12357, 12359, 12361, 12419, 12421, 12423, 12387, 12540,
      12354, 12356, 12358, 12360, 12362, 12363, 12365, 12367, 12369, 12371, 12373,
      12375, 12377, 12379, 12381, 12383, 12385, 12388, 12390, 12392, 12394, 12395,
      12396
    >>,
    <<
      12397, 12398, 12399, 12402, 12405, 12408, 12411, 12414, 12415, 12416, 12417,
      12418, 12420, 12422, 12424, 12425, 12426, 12427, 12428, 12429, 12431, 12435,
      12364, 12366, 12368, 12370, 12372, 12374, 12376, 12378, 12380, 12382, 12384,
      12386
    >>,
    <<
      12389, 12391, 12393, 12400, 12403, 12406, 12409, 12412, 12401, 12404, 12407,
      12410, 12413, 12431, 12443, 12432, 12443, 12436, 12433, 12443, 12434, 12443
    >>
  >>

\* src/test/test.js:14-18, the katakana the test expects, line by line
KatakanaFixture ==
  <<
    <<
      12530, 12449, 12451, 12453, 12455, 12457, 12515, 12517, 12519, 12483, 12540,
      12450, 12452, 12454, 12456, 12458, 12459, 12461, 12463, 12465, 12467, 12469,
      12471, 12473, 12475, 12477, 12479, 12481, 12484, 12486, 12488, 12490, 12491,
      12492
    >>,
    <<
      12493, 12494, 12495, 12498, 12501, 12504, 12507, 12510, 12511, 12512, 12513,
      12514, 12516, 12518, 12520, 12521, 12522, 12523, 12524, 12525, 12527, 12531,
      12460, 12462, 12464, 12466, 12468, 12470, 12472, 12474, 12476, 12478, 12480,
      12482
    >>,
    <<
      12485, 12487, 12489, 12496, 12499, 12502, 12505, 12508, 12497, 12500, 12503,
      12506, 12509, 12535, 12536, 12532, 12537, 12538
    >>
  >>

\* the characters of the lines of a fixture
FixtureChars(fixture) == UNION {Range(fixture[n]) : n \in DOMAIN fixture}

Katakanize ==
  /\ Query("katakanize", buf, 0, FALSE, 0)
  /\ retStr' = katakanize(buf)
  /\ retNum' = 0 /\ retArr' = <<>> /\ retFlag' = FALSE

Hiraganize ==
  \E combineMarks \in BOOLEAN :
    /\ op = "ready"
    /\ op' = "hiraganize" /\ pre' = buf /\ buf' = buf
    /\ argStr' = buf /\ argFlag' = combineMarks
    /\ argNum' = 0 /\ argNum2' = 0 /\ argFlag2' = FALSE /\ argKind' = "none"
    /\ retStr' = hiraganize(buf, combineMarks)
    /\ retNum' = 0 /\ retArr' = <<>> /\ retFlag' = FALSE /\ err' = "none"
    /\ NoLocals

\* wa, wi, we, wo followed by the spacing voicing mark U+309B
ArchaicPairs ==
  {<<12431, 12443>>, <<12432, 12443>>, <<12433, 12443>>, <<12434, 12443>>}

\* the alphabet of the fixture: its hiragana and the prolonged-sound mark one
\* by one, the archaic voiced forms as pairs
FixtureUnits ==
  {<<c>> : c \in (FixtureChars(HiraganaFixture) \ {12443})} \cup ArchaicPairs

\* wo, small tu, the prolonged-sound mark, ga, pa, wa, vu, wa + mark, wo + mark
FixtureSample ==
  {<<12434>>, <<12387>>, <<12540>>, <<12364>>, <<12401>>, <<12431>>, <<12436>>,
   <<12431, 12443>>, <<12434, 12443>>}

RECURSIVE UnitStringsUpTo(_, _)
UnitStringsUpTo(units, n) ==
  IF n = 0 THEN {<<>>}
  ELSE LET shorter == UnitStringsUpTo(units, n - 1)
       IN  shorter \cup {s \o u : s \in shorter, u \in units}

RoundTripInputs ==
  FixtureUnits \cup UnitStringsUpTo(FixtureSample, MaxLen)
    \cup Range(HiraganaFixture) \cup Range(KatakanaFixture)

InitRoundTrip == Fresh(RoundTripInputs)

NextRoundTrip == Katakanize \/ Hiraganize \/ Chain

SpecRoundTrip == InitRoundTrip /\ [][NextRoundTrip]_vars

\* s is built from the alphabet of the fixture: the voicing mark stands only
\* behind wa, wi, we or wo
IsFixtureString(s) ==
  \A i \in 1..Len(s) :
    /\ s[i] \in FixtureChars(HiraganaFixture)
    /\ s[i] = 12443 => (i > 1 /\ s[i - 1] \in 12431..12434)

\* The katakana of a fixture string from position i on: an archaic pair is one
\* of U+30F7..U+30FA, the prolonged-sound mark is itself, every other
\* hiragana is the katakana 96 code points above it.
RECURSIVE KatakanaFrom(_, _)
KatakanaFrom(s, i) ==
  IF i > Len(s) THEN <<>>
  ELSE IF i < Len(s) /\ s[i + 1] = 12443
       THEN <<s[i] + 104>> \o KatakanaFrom(s, i + 2)
       ELSE <<IF s[i] = 12540 THEN 12540 ELSE s[i] + 96>> \o KatakanaFrom(s, i + 1)

\* C15: for every string of the alphabet of the hiragana fixture (plain,
\* small, voiced and semi-voiced hiragana, the prolonged-sound mark, the
\* four archaic voiced forms as hiragana + U+309B), katakanize gives the
\* katakana 96 code points above each hiragana and U+30F7..U+30FA for the
\* archaic pairs, and hiraganize gives the string back.
C15_KanaRoundTrip ==
  (op = "katakanize" /\ IsFixtureString(argStr)) =>
    /\ retStr = KatakanaFrom(argStr, 1)
    /\ hiraganize(retStr, FALSE) = argStr

\* the last line of the fixture, which ends with the four archaic pairs, has
\* become the katakana the test expects, and comes back
C15_Witness ==
  /\ op = "katakanize" /\ argStr = HiraganaFixture[3] /\ retStr = KatakanaFixture[3]
  /\ hiraganize(retStr, FALSE) = argStr

----------------------------------------------------------------------------
(* convertProlongedSoundMarks step by step: the loop and its end.          *)

\* the call: const kanaWithProlongedSoundMarksPattern = ...; let converted = this.$
ConvertProlongedSoundMarks ==
  /\ op = "ready"
  /\ op' = "convertProlongedSoundMarks" /\ pre' = buf /\ buf' = buf
  /\ pc' = "while" /\ converted' = buf
  /\ NoArgs /\ NoRet

\* while (kanaWithProlongedSoundMarksPattern.test(converted))
WhileTest ==
  /\ pc = "while"
  /\ pc' = IF kanaWithProlongedSoundMarksPattern(converted) THEN "conv" ELSE "return"
  /\ UNCHANGED <<buf, pre, op, argStr, argNum, argNum2, argFlag, argFlag2, argKind,
                 retNum, retStr, retArr, retFlag, err, converted>>

\* converted = conv(converted)
Conv ==
  /\ pc = "conv"
  /\ converted' = prolongedConv(converted) /\ pc' = "while"
  /\ UNCHANGED <<buf, pre, op, argStr, argNum, argNum2, argFlag, argFlag2, argKind,
                 retNum, retStr, retArr, retFlag, err>>

\* this.$ = converted; return this
Return ==
  /\ pc = "return"
  /\ buf' = converted /\ pc' = "none" /\ converted' = <<>>
  /\ UNCHANGED <<pre, op, argStr, argNum, argNum2, argFlag, argFlag2, argKind,
                 retNum, retStr, retArr, retFlag, err>>

\* hiragana ko, the prolonged-sound mark, katakana n, small hiragana tu, the
\* katakana iteration mark, the letter a
ProlongedAlphabet == {12371, 12540, 12531, 12387, 12541, 97}

ProlongedInputs == StringsUpTo(ProlongedAlphabet, MaxLen)

InitProlonged == Fresh(ProlongedInputs)

NextProlonged == ConvertProlongedSoundMarks \/ WhileTest \/ Conv \/ Return \/ Chain

\* A call that has started goes on running: the program is one thread, and
\* nothing but the loop itself keeps the next step from being taken.
SpecProlonged ==
  /\ InitProlonged /\ [][NextProlonged]_vars
  /\ WF_vars(WhileTest) /\ WF_vars(Conv) /\ WF_vars(Return)

\* C16: convertProlongedSoundMarks terminates on every input: a call that has
\* reached its loop returns after finitely many passes, and the buffer it
\* leaves has no character of the hiragana or katakana class with the
\* prolonged-sound mark behind it.
C16_ProlongedTerminates ==
  /\ (pc = "while") ~> (pc = "none")
  /\ [](op = "convertProlongedSoundMarks" /\ pc = "none"
          => ~kanaWithProlongedSoundMarksPattern(buf))

====
